---- MODULE Spec2Model ----
(***************************************************************************)
(* Hazel's OpenGL shader pipeline (OpenGLShader.cpp) and vertex array      *)
(* (OpenGLVertexArray.cpp) as state machines over an explicit model of the *)
(* native graphics context.                                                *)
(*                                                                         *)
(* Strings are sequences of one-character strings, indexed from 0 as in    *)
(* C++ (At).  size_t is kept as an unsigned word, scaled from 64 to 16     *)
(* bits: every string here is far shorter than 2^16, so npos and the       *)
(* wrap-around of the subtractions in PreProcess behave as in the code.    *)
(***************************************************************************)
EXTENDS Integers, Sequences, FiniteSets, TLC

VARIABLES
    assertsEnabled,   \* build configuration: does HZ_CORE_ASSERT stop the process
    halted,           \* the process has stopped (failed assertion, uncaught exception)
    \* ---- native graphics context
    shaderObjs,       \* names of the shader objects that exist
    programObjs,      \* names of the program objects that exist
    attachments,      \* <<program, shader>> pairs: shader is attached to program
    deleteFlagged,    \* shader objects flagged for deletion while still attached
    linkedPrograms,   \* program objects whose last link succeeded
    activeProgram,    \* the program installed by glUseProgram (0: none)
    nextName,         \* next object name the context hands out
    \* ---- OpenGLShader objects
    shaders,          \* sequence of OpenGLShader objects: [m_RendererID]
    trace,            \* the native calls made by the most recent operation
    \* ---- PreProcess on its own
    ppInput,          \* the pieces the source text is made of
    ppResult,         \* what PreProcess did with it
    \* ---- OpenGLVertexArray
    m_VertexBufferIndex,
    m_VertexBuffers,  \* the layouts of the attached buffers, in order
    attribCalls,      \* glEnableVertexAttribArray/glVertexAttribPointer calls, in order
    vaTrace           \* outcome of the most recent AddVertexBuffer

glVars == <<shaderObjs, programObjs, attachments, deleteFlagged, linkedPrograms,
            activeProgram, nextName>>
shVars == <<shaders, trace>>
ppVars == <<ppInput, ppResult>>
vaVars == <<m_VertexBufferIndex, m_VertexBuffers, attribCalls, vaTrace>>
vars == <<assertsEnabled, halted, glVars, shVars, ppVars, vaVars>>

\* ------------------------------------------------------------------ bounds
MaxBlocks == 3        \* marker blocks in a generated source text
MaxShaders == 2       \* OpenGLShader constructions in one run
MaxBuffers == 2       \* AddVertexBuffer calls in one run
MaxLayoutLen == 3     \* elements in one buffer layout

\* ----------------------------------------------------------------- strings
SizeModulus == 65536
Npos == SizeModulus - 1
SizeT(x) == (x + SizeModulus) % SizeModulus

SetMin(S) == CHOOSE x \in S : \A y \in S : x <= y
At(s, i) == s[i + 1]

\* std::string::find(needle, from)
Find(s, needle, from) ==
    LET hits == {i \in from..(Len(s) - Len(needle)) :
                    \A j \in 1..Len(needle) : s[i + j] = needle[j]}
    IN IF hits = {} THEN Npos ELSE SetMin(hits)

\* std::string::find_first_of(chars, from)
FindFirstOf(s, chars, from) ==
    LET hits == {i \in from..(Len(s) - 1) : At(s, i) \in chars}
    IN IF hits = {} THEN Npos ELSE SetMin(hits)

\* A find_first_not_of that skips nothing: the text would start at the line break.
FindFirstNotOfNoSkip(s, chars, from) == IF from < Len(s) THEN from ELSE Npos

\* std::string::find_first_not_of(chars, from)
FindFirstNotOf(s, chars, from) ==
    LET hits == {i \in from..(Len(s) - 1) : At(s, i) \notin chars}
    IN IF hits = {} THEN Npos ELSE SetMin(hits)

\* std::string::substr(pos, count): throws std::out_of_range when pos > size()
OutOfRange == <<"std::out_of_range">>
Substr(s, pos, count) ==
    IF pos > Len(s) THEN OutOfRange
    ELSE LET rest == Len(s) - pos
             n == IF count < rest THEN count ELSE rest
         IN SubSeq(s, pos + 1, pos + n)

TypeToken == <<"#", "t", "y", "p", "e">>
LineBreakChars == {"\r", "\n"}
Vertex == <<"v", "e", "r", "t", "e", "x">>
Fragment == <<"f", "r", "a", "g", "m", "e", "n", "t">>
Pixel == <<"p", "i", "x", "e", "l">>
Geom == <<"g", "e", "o", "m">>

GL_VERTEX_SHADER == 35633
GL_FRAGMENT_SHADER == 35632

\* -------------------------------------------------------------- assertions
\* HZ_CORE_ASSERT(cond, ...): TRUE when the process stops here.  A build with
\* assertions (enabled) stops on a false condition; a build without compiles
\* the macro away and runs on into the statement that follows it (the
\* return 0, break and return the source places after its assertions).
HZ_CORE_ASSERT(enabled, cond) == enabled /\ ~cond

\* ------------------------------------------------------------- PreProcess
ShaderTypeFromString(enabled, type) ==
    IF type = Vertex THEN [halt |-> FALSE, type |-> GL_VERTEX_SHADER]
    ELSE IF type = Fragment \/ type = Pixel
         THEN [halt |-> FALSE, type |-> GL_FRAGMENT_SHADER]
    ELSE [halt |-> HZ_CORE_ASSERT(enabled, FALSE), type |-> 0]

MapPut(m, k, v) == [x \in (DOMAIN m) \cup {k} |-> IF x = k THEN v ELSE m[x]]
EmptyMap == [x \in {} |-> <<>>]

PPResult(st, m, n) == [status |-> st, sources |-> m, markers |-> n]

\* The while loop of PreProcess; n counts the marker lines taken so far.
\* The right operand of the assignment at lines 91-92 (substr) is evaluated
\* before the left one (ShaderTypeFromString), as C++17 orders it.
RECURSIVE PreProcessLoop(_, _, _, _, _)
PreProcessLoop(enabled, source, pos, shaderSources, n) ==
    IF pos = Npos THEN PPResult("ok", shaderSources, n)
    ELSE
    LET eol == FindFirstOf(source, LineBreakChars, pos)
        begin == SizeT(pos + Len(TypeToken) + 1)
        type == Substr(source, begin, SizeT(eol - begin))
        nextLinePos == FindFirstNotOf(source, LineBreakChars, eol)
        newPos == Find(source, TypeToken, nextLinePos)
        text == Substr(source, nextLinePos,
                       SizeT(newPos - (IF nextLinePos = Npos
                                       THEN Len(source) - 1 ELSE nextLinePos)))
        key == ShaderTypeFromString(enabled, type)
    IN IF HZ_CORE_ASSERT(enabled, eol # Npos) THEN PPResult("assert_syntax", shaderSources, n)
       ELSE IF type = OutOfRange \/ text = OutOfRange
            THEN PPResult("out_of_range", shaderSources, n)
       ELSE IF key.halt THEN PPResult("assert_type", shaderSources, n)
       ELSE PreProcessLoop(enabled, source, newPos,
                           MapPut(shaderSources, key.type, text), n + 1)

\* OpenGLShader::PreProcess in a build with (enabled) or without assertions
PreProcess(enabled, source) ==
    PreProcessLoop(enabled, source, Find(source, TypeToken, 0), EmptyMap, 0)

\* ------------------------------------------------- generated source texts
StageNames == {Vertex, Fragment, Pixel, Geom}
\* what follows the stage name: the line break(s), then the stage text
Tails == { [eol |-> <<>>,           body |-> <<>>],
           [eol |-> <<"\n">>,       body |-> <<>>],
           [eol |-> <<"\r", "\n">>, body |-> <<"a", ";", "\n", "b", ";", "\n">>],
           [eol |-> <<"\n", "\n">>, body |-> <<" ", "x">>] }
Preambles == { <<>>, <<"/", "/", "c", "\n">> }
Blocks == [name : StageNames, tail : Tails]

RenderBlock(b) == TypeToken \o <<" ">> \o b.name \o b.tail.eol \o b.tail.body
RECURSIVE RenderBlocks(_)
RenderBlocks(bs) == IF bs = <<>> THEN <<>> ELSE RenderBlock(Head(bs)) \o RenderBlocks(Tail(bs))
Render(input) == input.pre \o RenderBlocks(input.blocks)

BlockSeqs(n) == UNION {[1..k -> Blocks] : k \in 0..n}

NotRun == [status |-> "not_run", sources |-> EmptyMap, markers |-> 0]

\* ------------------------------------------------- native graphics context
\* The context as a value, so that a handler's sequence of native calls is
\* a composition of functions on it.
Context == [shaderObjs |-> shaderObjs, programObjs |-> programObjs,
            attachments |-> attachments, deleteFlagged |-> deleteFlagged,
            linkedPrograms |-> linkedPrograms, activeProgram |-> activeProgram,
            nextName |-> nextName]

IsAttached(G, s) == \E pr \in G.attachments : pr[2] = s

\* Flagged shader objects die once nothing holds them any more.
Reap(G) ==
    LET dead == {s \in G.deleteFlagged : ~IsAttached(G, s)}
    IN [G EXCEPT !.shaderObjs = @ \ dead, !.deleteFlagged = @ \ dead]

glCreateProgram(G) ==
    [G |-> [G EXCEPT !.programObjs = @ \cup {G.nextName}, !.nextName = @ + 1],
     id |-> G.nextName]

\* An unknown shader type is GL_INVALID_ENUM: no object, name 0.
glCreateShader(G, type) ==
    IF type \in {GL_VERTEX_SHADER, GL_FRAGMENT_SHADER}
    THEN [G |-> [G EXCEPT !.shaderObjs = @ \cup {G.nextName}, !.nextName = @ + 1],
          id |-> G.nextName]
    ELSE [G |-> G, id |-> 0]

\* 0 is silently ignored; a name that is no shader object is an error with
\* no effect; an attached shader is only flagged.
glDeleteShader(G, id) ==
    IF id \notin G.shaderObjs THEN G
    ELSE IF IsAttached(G, id) THEN [G EXCEPT !.deleteFlagged = @ \cup {id}]
    ELSE [G EXCEPT !.shaderObjs = @ \ {id}, !.deleteFlagged = @ \ {id}]

glAttachShader(G, program, id) ==
    IF program \in G.programObjs /\ id \in G.shaderObjs
    THEN [G EXCEPT !.attachments = @ \cup {<<program, id>>}]
    ELSE G

glDetachShader(G, program, id) ==
    IF <<program, id>> \in G.attachments
    THEN Reap([G EXCEPT !.attachments = @ \ {<<program, id>>}])
    ELSE G

glLinkProgram(G, program, linkOK) ==
    IF program \in G.programObjs /\ linkOK
    THEN [G EXCEPT !.linkedPrograms = @ \cup {program}]
    ELSE [G EXCEPT !.linkedPrograms = @ \ {program}]

\* Deleting a program that is not in use detaches its shaders and frees it.
\* (Compile only ever deletes the program it has just created, which is
\* never the active one.)
glDeleteProgram(G, program) ==
    IF program \notin G.programObjs \/ program = G.activeProgram THEN G
    ELSE Reap([G EXCEPT !.programObjs = @ \ {program},
                        !.linkedPrograms = @ \ {program},
                        !.attachments = {pr \in @ : pr[1] # program}])

\* 0 uninstalls; a name that is no successfully linked program is an error
\* with no effect.
glUseProgram(G, program) ==
    IF program = 0 \/ program \in G.linkedPrograms
    THEN [G EXCEPT !.activeProgram = program]
    ELSE G

\* ---------------------------------------------------------------- Compile
MaxStages == 2        \* HZ_CORE_ASSERT(shaderSources.size() <= 2, ...)
ShaderIDSlots == 2    \* std::array<GLenum, 2> glShaderIDs

Range(f) == {f[x] : x \in DOMAIN f}
Perms(S) == {f \in [1..Cardinality(S) -> S] : \A i, j \in DOMAIN f : f[i] = f[j] => i = j}

\* One native call on a stage handle, as the trace keeps it: was the handle
\* created by this attempt, does it still exist, and had the array slot it
\* was read from been written.
Call(fn, G, id, created, slotWritten) ==
    [fn |-> fn, id |-> id, own |-> id \in Range(created),
     live |-> id \in G.shaderObjs /\ id \notin G.deleteFlagged,
     written |-> slotWritten]

\* The for loop over shaderSources (lines 106-133), in the order the
\* unordered_map happens to iterate.  A failed stage is deleted and the loop
\* left by break; glShaderIDs[glShaderIDIndex++] is written only past that.
RECURSIVE CompileLoop(_, _, _, _)
CompileLoop(R, program, order, compiles) ==
    IF order = <<>> THEN R
    ELSE
    LET shaderType == Head(order)
        c == glCreateShader(R.G, shaderType)
        created == IF c.id = 0 THEN R.created ELSE Append(R.created, c.id)
        isCompiled == c.id # 0 /\ compiles[shaderType]
    IN IF ~isCompiled
       THEN [R EXCEPT !.G = glDeleteShader(c.G, c.id),
                      !.created = created,
                      !.calls = Append(@, Call("glDeleteShader", c.G, c.id, created, TRUE)),
                      !.failed = TRUE]
       ELSE CompileLoop(
                [R EXCEPT !.G = glAttachShader(c.G, program, c.id),
                          !.created = created,
                          !.ids = IF R.idx < ShaderIDSlots
                                  THEN [@ EXCEPT ![R.idx] = c.id] ELSE @,
                          !.written = IF R.idx < ShaderIDSlots
                                      THEN @ \cup {R.idx} ELSE @,
                          !.overrun = @ \/ R.idx >= ShaderIDSlots,
                          !.idx = @ + 1],
                program, Tail(order), compiles)

\* for (auto id : glShaderIDs) fn(id): every slot of the array is read,
\* written or not.
RECURSIVE ForEachID(_, _, _, _, _)
ForEachID(S, fn, program, R, slot) ==
    IF slot >= ShaderIDSlots THEN S
    ELSE
    LET id == R.ids[slot]
        G2 == IF fn = "glDeleteShader" THEN glDeleteShader(S.G, id)
              ELSE glDetachShader(S.G, program, id)
    IN ForEachID([G |-> G2,
                  calls |-> Append(S.calls,
                                   Call(fn, S.G, id, R.created, slot \in R.written))],
                 fn, program, R, slot + 1)

\* A link-failure path that frees the program and forgets the stage units.
ReleaseProgramOnly(GL, program, R) ==
    [G |-> glDeleteProgram(GL, program), calls |-> R.calls]

\* Link failure (lines 147-150): the program, then every slot of glShaderIDs.
ReleaseAttempt(GL, program, R) ==
    ForEachID([G |-> glDeleteProgram(GL, program), calls |-> R.calls],
              "glDeleteShader", program, R, 0)

\* A link-success path that deletes the stage units instead of detaching them.
DeleteStagesInstead(GL, program, R) ==
    ForEachID([G |-> GL, calls |-> R.calls], "glDeleteShader", program, R, 0)

\* Link success (lines 157-158): every slot of glShaderIDs is detached.
DetachStages(GL, program, R) ==
    ForEachID([G |-> GL, calls |-> R.calls], "glDetachShader", program, R, 0)

CompileResult(G, outcome, program, R, linkOK, assigned) ==
    [G |-> G, outcome |-> outcome, program |-> program,
     created |-> R.created, calls |-> R.calls,
     compileFailed |-> R.failed, linkOK |-> linkOK,
     assigned |-> assigned, bindCalled |-> assigned,
     uninitRead |-> \E c \in Range(R.calls) : ~c.written,
     overrun |-> R.overrun]

\* OpenGLShader::Compile.  garbage is what the uninitialised glShaderIDs
\* array holds on entry; compiles and linkOK are the native compiler's and
\* linker's answers.
Compile(G0, shaderSources, order, compiles, linkOK, garbage) ==
    LET p == glCreateProgram(G0)
        R0 == [G |-> p.G, ids |-> garbage, written |-> {}, idx |-> 0,
               created |-> <<>>, calls |-> <<>>, failed |-> FALSE, overrun |-> FALSE]
        R == CompileLoop(R0, p.id, order, compiles)
        GL == glLinkProgram(R.G, p.id, linkOK)
        D == ReleaseAttempt(GL, p.id, R)
        T == DetachStages(GL, p.id, R)
    IN IF HZ_CORE_ASSERT(assertsEnabled, Cardinality(DOMAIN shaderSources) <= MaxStages)
       THEN CompileResult(p.G, "assert_two_stages", p.id, R0, FALSE, FALSE)
       ELSE IF R.failed /\ HZ_CORE_ASSERT(assertsEnabled, FALSE)
       THEN CompileResult(R.G, "assert_compile", p.id, R, FALSE, FALSE)
       ELSE IF ~linkOK
       THEN CompileResult(D.G, IF HZ_CORE_ASSERT(assertsEnabled, FALSE)
                               THEN "assert_link" ELSE "link_failed",
                          p.id, [R EXCEPT !.calls = D.calls], FALSE, FALSE)
       ELSE CompileResult(glUseProgram(T.G, p.id), "ok",
                          p.id, [R EXCEPT !.calls = T.calls], TRUE, TRUE)

Halts(outcome) == outcome \notin {"ok", "link_failed"}

\* ----------------------------------------------------- OpenGLShader objects
\* What the uninitialised glShaderIDs slots may hold: any word.  Three kinds
\* of word differ in what the native calls do with them, and stand for all:
\* 0, the name of a shader object an earlier attempt left alive, and a name
\* that is no shader object (every name this attempt creates is in its own
\* slot or already deleted by the time an unwritten slot is read).
GarbageValues == {0} \cup shaderObjs \cup {nextName + ShaderIDSlots + 1}

\* The initial contents of glShaderIDs, up to what the attempt can observe:
\* a slot the loop writes is never read before the write, so only the slots
\* it leaves unwritten range over the garbage.
SlotsWritten(G0, order, compiles) ==
    CompileLoop([G |-> glCreateProgram(G0).G, ids |-> [i \in 0..(ShaderIDSlots - 1) |-> 0],
                 written |-> {}, idx |-> 0, created |-> <<>>, calls |-> <<>>,
                 failed |-> FALSE, overrun |-> FALSE],
                glCreateProgram(G0).id, order, compiles).written
InitialIDs(G0, order, compiles) ==
    LET w == SlotsWritten(G0, order, compiles)
    IN {g \in [0..(ShaderIDSlots - 1) -> GarbageValues] : \A i \in w : g[i] = 0}

\* Reading m_RendererID: the program handle once Compile has assigned it,
\* otherwise whatever the member happens to hold: 0, the name of a program
\* object, or a name that is no program object (nextName stands for those).
ReadRendererID(sh) ==
    IF sh.assigned THEN {sh.m_RendererID} ELSE {0} \cup programObjs \cup {nextName}

\* ReadFile: the file's bytes, or the empty string when it cannot be opened.
ReadFile(file) == IF file.readable THEN Render(file.input) ELSE <<>>

\* The files shaders are constructed from.
WellFormedTail == [eol |-> <<"\r", "\n">>, body |-> <<"a", ";", "\n", "b", ";", "\n">>]
MarkerLastTail == [eol |-> <<"\n">>, body |-> <<>>]
StageFile(names, tail) ==
    [readable |-> TRUE,
     input |-> [pre |-> <<>>,
                blocks |-> [i \in DOMAIN names |-> [name |-> names[i], tail |-> tail]]]]
Files ==
    {[readable |-> FALSE, input |-> [pre |-> <<>>, blocks |-> <<>>]],
     [readable |-> TRUE, input |-> [pre |-> <<"/", "/", "c", "\n">>, blocks |-> <<>>]],
     StageFile(<<Vertex>>, WellFormedTail),
     StageFile(<<Fragment, Vertex>>, WellFormedTail),
     StageFile(<<Vertex, Fragment, Vertex>>, WellFormedTail),
     StageFile(<<Pixel, Pixel, Fragment>>, WellFormedTail),
     StageFile(<<Geom>>, WellFormedTail),
     StageFile(<<Vertex>>, MarkerLastTail)}

\* Lines 24-25 of the file constructor, source = ReadFile(filepath) and
\* PreProcess(source), for each file and build.
PreProcessedFiles ==
    [enabled \in BOOLEAN |-> [file \in Files |-> PreProcess(enabled, ReadFile(file))]]

ConstructTrace(via, markers, stages, C, shader) ==
    [op |-> "Construct", via |-> via, markers |-> markers, stages |-> stages,
     outcome |-> C.outcome, program |-> C.program, created |-> C.created,
     calls |-> C.calls, compileFailed |-> C.compileFailed, linkOK |-> C.linkOK,
     assigned |-> C.assigned, bindCalled |-> C.bindCalled,
     uninitRead |-> C.uninitRead, overrun |-> C.overrun, shader |-> shader]

\* The state after a constructor has run Compile with result C.
Constructed(via, markers, stages, C) ==
    /\ shaderObjs' = C.G.shaderObjs
    /\ programObjs' = C.G.programObjs
    /\ attachments' = C.G.attachments
    /\ deleteFlagged' = C.G.deleteFlagged
    /\ linkedPrograms' = C.G.linkedPrograms
    /\ activeProgram' = C.G.activeProgram
    /\ nextName' = C.G.nextName
    /\ halted' = Halts(C.outcome)
    /\ shaders' = IF Halts(C.outcome) THEN shaders
                  ELSE Append(shaders, [assigned |-> C.assigned,
                                        m_RendererID |-> IF C.assigned THEN C.program ELSE 0])
    /\ trace' = ConstructTrace(via, markers, stages, C,
                               IF Halts(C.outcome) THEN 0 ELSE Len(shaders) + 1)

\* OpenGLShader(name, vertexSrc, fragmentSrc), lines 36-44
ConstructFromSources ==
    /\ ~halted
    /\ Len(shaders) < MaxShaders
    /\ \E compiles \in [{GL_VERTEX_SHADER, GL_FRAGMENT_SHADER} -> BOOLEAN],
          order \in Perms({GL_VERTEX_SHADER, GL_FRAGMENT_SHADER}) :
       \E linkOK \in BOOLEAN,
          garbage \in InitialIDs(Context, order, compiles) :
            Constructed("sources", 0, {GL_VERTEX_SHADER, GL_FRAGMENT_SHADER},
                        Compile(Context, compiles, order, compiles, linkOK, garbage))
    /\ UNCHANGED <<assertsEnabled, ppVars, vaVars>>

\* OpenGLShader(filepath), lines 21-34: ReadFile, PreProcess, Compile.  A
\* failed assertion or the exception out of PreProcess ends the process
\* before Compile makes any native call.
ConstructFromFile ==
    /\ ~halted
    /\ Len(shaders) < MaxShaders
    /\ \E file \in Files :
         LET pp == PreProcessedFiles[assertsEnabled][file]
         IN IF pp.status # "ok"
            THEN /\ halted' = TRUE
                 /\ trace' = [op |-> "Construct", via |-> "file", markers |-> pp.markers,
                              stages |-> DOMAIN pp.sources, outcome |-> pp.status,
                              program |-> 0, created |-> <<>>, calls |-> <<>>,
                              compileFailed |-> FALSE, linkOK |-> FALSE,
                              assigned |-> FALSE, bindCalled |-> FALSE,
                              uninitRead |-> FALSE, overrun |-> FALSE, shader |-> 0]
                 /\ UNCHANGED <<glVars, shaders>>
            ELSE \E compiles \in [DOMAIN pp.sources -> BOOLEAN],
                    order \in Perms(DOMAIN pp.sources) :
                 \E linkOK \in BOOLEAN,
                    garbage \in InitialIDs(Context, order, compiles) :
                      Constructed("file", pp.markers, DOMAIN pp.sources,
                                  Compile(Context, pp.sources, order, compiles, linkOK, garbage))
    /\ UNCHANGED <<assertsEnabled, ppVars, vaVars>>

SetContext(G) ==
    /\ shaderObjs' = G.shaderObjs
    /\ programObjs' = G.programObjs
    /\ attachments' = G.attachments
    /\ deleteFlagged' = G.deleteFlagged
    /\ linkedPrograms' = G.linkedPrograms
    /\ activeProgram' = G.activeProgram
    /\ nextName' = G.nextName

\* OpenGLShader::Bind, lines 166-170
Bind ==
    /\ ~halted
    /\ \E i \in DOMAIN shaders : \E id \in ReadRendererID(shaders[i]) :
         /\ SetContext(glUseProgram(Context, id))
         /\ trace' = [op |-> "Bind", shader |-> i, id |-> id]
    /\ UNCHANGED <<assertsEnabled, halted, shaders, ppVars, vaVars>>

\* OpenGLShader::Unbind, lines 172-175
Unbind ==
    /\ ~halted
    /\ \E i \in DOMAIN shaders :
         /\ SetContext(glUseProgram(Context, 0))
         /\ trace' = [op |-> "Unbind", shader |-> i]
    /\ UNCHANGED <<assertsEnabled, halted, shaders, ppVars, vaVars>>

\* ---------------------------------------------------------- uniform upload
UniformNames == {"u_ViewProjection"}
\* entry point -> the UploadUniform* function that does the work
UniformEntry ==
    [SetMat4 |-> "UploadUniformMat4", SetFloat4 |-> "UploadUniformFloat4",
     SetFloat3 |-> "UploadUniformFloat3", SetFloat |-> "UploadUniformFloat",
     SetInt |-> "UploadUniformInt",
     UploadUniformMat3 |-> "UploadUniformMat3", UploadUniformMat4 |-> "UploadUniformMat4",
     UploadUniformFloat4 |-> "UploadUniformFloat4",
     UploadUniformFloat3 |-> "UploadUniformFloat3",
     UploadUniformFloat2 |-> "UploadUniformFloat2",
     UploadUniformFloat |-> "UploadUniformFloat",
     UploadUniformInt4 |-> "UploadUniformInt4", UploadUniformInt3 |-> "UploadUniformInt3",
     UploadUniformInt2 |-> "UploadUniformInt2", UploadUniformInt |-> "UploadUniformInt",
     UploadUniformBool |-> "UploadUniformBool"]

\* An upload that installs the shader's own program before pushing.
UploadUniformBindsFirst(G, id, name) ==
    [G |-> glUseProgram(G, id),
     queried |-> id,
     found |-> id \in G.linkedPrograms,
     target |-> glUseProgram(G, id).activeProgram]

\* glGetUniformLocation(program, name): a slot of THAT program (-1 when it
\* is no linked program); glUniform*(location, ...): stores into the slot of
\* the program in use, whichever that is (none: an error, nothing stored).
UploadUniform(G, id, name) ==
    [G |-> G,
     queried |-> id,
     found |-> id \in G.linkedPrograms,
     target |-> G.activeProgram]

\* Set*/UploadUniform*, lines 177-276
Upload ==
    /\ ~halted
    /\ \E i \in DOMAIN shaders, entry \in DOMAIN UniformEntry, name \in UniformNames :
       \E id \in ReadRendererID(shaders[i]) :
         LET U == UploadUniform(Context, id, name)
         IN /\ SetContext(U.G)
            /\ trace' = [op |-> "Upload", shader |-> i, fn |-> UniformEntry[entry],
                         name |-> name, queried |-> U.queried, found |-> U.found,
                         target |-> U.target, boundBefore |-> activeProgram]
    /\ UNCHANGED <<assertsEnabled, halted, shaders, ppVars, vaVars>>

NoTrace == [op |-> "none"]

\* A fresh OpenGLVertexArray: no buffer attached, next free slot 0.
InitVertexArray ==
    /\ m_VertexBufferIndex = 0
    /\ m_VertexBuffers = <<>>
    /\ attribCalls = <<>>
    /\ vaTrace = NoTrace

InitIdle ==
    /\ ppInput = [pre |-> <<>>, blocks |-> <<>>]
    /\ ppResult = NotRun
    /\ InitVertexArray

InitContext ==
    /\ shaderObjs = {}
    /\ programObjs = {}
    /\ attachments = {}
    /\ deleteFlagged = {}
    /\ linkedPrograms = {}
    /\ activeProgram = 0
    /\ nextName = 1
    /\ shaders = <<>>
    /\ trace = NoTrace

Init ==
    /\ assertsEnabled \in BOOLEAN
    /\ halted = FALSE
    /\ InitContext
    /\ InitIdle

Next == ConstructFromSources \/ ConstructFromFile \/ Bind \/ Unbind

Spec == Init /\ [][Next]_vars

\* Shaders built from in-memory sources, bound, unbound and fed uniforms.
NextUniform == ConstructFromSources \/ Bind \/ Unbind \/ Upload

SpecUniform == Init /\ [][NextUniform]_vars

\* ------------------------------------------------------ PreProcess on its own
\* Every source text made of an optional preamble and up to MaxBlocks marker
\* blocks, split once.
InitPreProcess ==
    /\ assertsEnabled \in BOOLEAN
    /\ halted = FALSE
    /\ InitContext
    /\ InitVertexArray
    /\ ppInput \in [pre : Preambles, blocks : BlockSeqs(MaxBlocks)]
    /\ ppResult = NotRun

RunPreProcess ==
    /\ ~halted
    /\ ppResult = NotRun
    /\ ppResult' = PreProcess(assertsEnabled, Render(ppInput))
    /\ halted' = (ppResult'.status # "ok")
    /\ UNCHANGED <<assertsEnabled, glVars, shVars, ppInput, vaVars>>

SpecPreProcess == InitPreProcess /\ [][RunPreProcess]_vars

\* ------------------------------------------------------- OpenGLVertexArray
ShaderDataTypeToOpenGLBaseType(type) ==
    CASE type \in {"Float", "Float2", "Float3", "Float4", "Mat3", "Mat4"} -> "GL_FLOAT"
      [] type \in {"Int", "Int2", "Int3", "Int4"} -> "GL_INT"
      [] type = "Bool" -> "GL_BOOL"
      [] OTHER -> "0"

\* The layout elements buffers are declared with.
Elements == {[Type |-> "Float3", Normalized |-> FALSE],
             [Type |-> "Int4", Normalized |-> TRUE]}
Layouts == UNION {[1..k -> Elements] : k \in 0..MaxLayoutLen}

\* A loop that forgets m_VertexBufferIndex++.
RECURSIVE AttachElementsNoIncrement(_, _)
AttachElementsNoIncrement(V, elements) ==
    IF elements = <<>> THEN V
    ELSE AttachElementsNoIncrement(
             [index |-> V.index,
              calls |-> Append(V.calls,
                               [index |-> V.index,
                                type |-> ShaderDataTypeToOpenGLBaseType(Head(elements).Type),
                                normalized |-> Head(elements).Normalized,
                                element |-> Head(elements)])],
             Tail(elements))

\* The for loop of AddVertexBuffer (lines 64-76): one enable and one pointer
\* call per element at m_VertexBufferIndex, which is then incremented.
RECURSIVE AttachElements(_, _)
AttachElements(V, elements) ==
    IF elements = <<>> THEN V
    ELSE AttachElements(
             [index |-> V.index + 1,
              calls |-> Append(V.calls,
                               [index |-> V.index,
                                type |-> ShaderDataTypeToOpenGLBaseType(Head(elements).Type),
                                normalized |-> Head(elements).Normalized,
                                element |-> Head(elements)])],
             Tail(elements))

\* OpenGLVertexArray::AddVertexBuffer, lines 55-79
AddVertexBuffer ==
    /\ ~halted
    /\ Len(m_VertexBuffers) < MaxBuffers
    /\ \E layout \in Layouts :
         IF HZ_CORE_ASSERT(assertsEnabled, Len(layout) # 0)
         THEN /\ halted' = TRUE
              /\ vaTrace' = [op |-> "AddVertexBuffer", outcome |-> "assert_layout",
                             layout |-> layout, indexBefore |-> m_VertexBufferIndex]
              /\ UNCHANGED <<m_VertexBufferIndex, m_VertexBuffers, attribCalls>>
         ELSE LET V == AttachElements([index |-> m_VertexBufferIndex, calls |-> attribCalls],
                                      layout)
              IN /\ m_VertexBufferIndex' = V.index
                 /\ attribCalls' = V.calls
                 /\ m_VertexBuffers' = Append(m_VertexBuffers, layout)
                 /\ vaTrace' = [op |-> "AddVertexBuffer", outcome |-> "ok",
                                layout |-> layout, indexBefore |-> m_VertexBufferIndex]
                 /\ UNCHANGED halted
    /\ UNCHANGED <<assertsEnabled, glVars, shVars, ppVars>>

SpecVertexArray == Init /\ [][AddVertexBuffer]_vars

\* ================================================================ properties
AfterConstruct == trace.op = "Construct"
Created == Range(trace.created)
AllCompiledLinkFailed ==
    /\ AfterConstruct
    /\ ~trace.compileFailed
    /\ trace.outcome \in {"link_failed", "assert_link"}
AllCompiledLinked ==
    /\ AfterConstruct
    /\ ~trace.compileFailed
    /\ trace.outcome = "ok"

\* C1: Compile assigns m_RendererID and calls Bind only if every stage of the
\* mapping compiled and the link succeeded; after a failed stage or a failed
\* link no handle is assigned and Bind is not called.
C1_AssignedOnlyOnFullSuccess ==
    AfterConstruct =>
        ((trace.assigned \/ trace.bindCalled) => (~trace.compileFailed /\ trace.linkOK))

\* C2: when a stage fails to compile, once Compile has returned no stage unit
\* the attempt created is still alive: the failing unit and every unit
\* compiled before it have been released.
C2_CompileFailureReleasesStages ==
    (AfterConstruct /\ trace.compileFailed /\ ~Halts(trace.outcome)) =>
        \A id \in Created : id \notin shaderObjs

\* C3: when every stage compiles and the link fails, the program object and
\* every stage unit the attempt created have been released when Compile
\* ends: none of them exists, none is attached, none is pending deletion.
C3_LinkFailureReleasesAll ==
    AllCompiledLinkFailed =>
        /\ trace.program \notin programObjs
        /\ trace.program \notin linkedPrograms
        /\ \A id \in Created : id \notin shaderObjs /\ id \notin deleteFlagged
        /\ \A pr \in attachments : pr[1] # trace.program /\ pr[2] \notin Created
        /\ ~trace.assigned
C3_Witness ==
    /\ AllCompiledLinkFailed
    /\ Len(trace.created) = ShaderIDSlots
    /\ Len(shaders) >= 1
    /\ shaders[1].assigned
    /\ shaders[1].m_RendererID \in programObjs

\* C4: when every stage compiles and the link succeeds, every stage unit is
\* detached and none is deleted, the linked program is the shader's handle
\* and it is the context's active program; so after several constructions
\* in a row the active program is that of the shader constructed last.
C4_SuccessDetachesKeepsAndBinds ==
    AllCompiledLinked =>
        /\ \A id \in Created :
              /\ id \in shaderObjs
              /\ id \notin deleteFlagged
              /\ <<trace.program, id>> \notin attachments
        /\ \A i \in DOMAIN trace.calls : trace.calls[i].fn = "glDetachShader"
        /\ trace.shader = Len(shaders)
        /\ shaders[trace.shader] = [assigned |-> TRUE, m_RendererID |-> trace.program]
        /\ trace.program \in programObjs \cap linkedPrograms
        /\ activeProgram = trace.program
C4_Witness ==
    /\ AllCompiledLinked
    /\ Len(trace.created) = ShaderIDSlots
    /\ Len(shaders) = 2
    /\ shaders[1].assigned
    /\ shaders[1].m_RendererID # activeProgram

\* ---- PreProcess
Recognized == {Vertex, Fragment, Pixel}
Kind(name) == IF name = Vertex THEN GL_VERTEX_SHADER ELSE GL_FRAGMENT_SHADER
StartsWithLineBreak(text) == text # <<>> /\ Head(text) \in LineBreakChars
WellFormedBlock(b) ==
    /\ b.name \in Recognized
    /\ b.tail.eol # <<>>
    /\ b.tail.body # <<>>
    /\ ~StartsWithLineBreak(b.tail.body)
WellFormedTwoStage(input) ==
    /\ Len(input.blocks) = 2
    /\ \A i \in 1..2 : WellFormedBlock(input.blocks[i])
    /\ Kind(input.blocks[1].name) # Kind(input.blocks[2].name)
PreProcessed == ppResult # NotRun

\* C5: a source text of exactly two blocks, a vertex one and a fragment (or
\* pixel) one in either order, each with non-empty stage text, is split into
\* exactly two entries, and each entry is the text from the first character
\* after the marker line's line breaks up to the next marker or the end.
C5_TwoStageSplit ==
    (PreProcessed /\ WellFormedTwoStage(ppInput)) =>
        /\ ppResult.status = "ok"
        /\ DOMAIN ppResult.sources = {GL_VERTEX_SHADER, GL_FRAGMENT_SHADER}
        /\ \A i \in 1..2 :
              ppResult.sources[Kind(ppInput.blocks[i].name)] = ppInput.blocks[i].tail.body
C5_Witness ==
    /\ PreProcessed
    /\ WellFormedTwoStage(ppInput)
    /\ ppInput.blocks[1].name = Pixel
    /\ ppInput.blocks[1].tail.eol = <<"\n", "\n">>
    /\ ppInput.pre # <<>>
    /\ ppResult.sources[GL_FRAGMENT_SHADER] = <<" ", "x">>

\* The last marker line is followed by the end of input: nothing, or only
\* line breaks, comes after the stage name.  The blocks before it are well
\* formed.
MarkerLast(input) ==
    LET n == Len(input.blocks)
    IN /\ n >= 1
       /\ input.blocks[n].name \in Recognized
       /\ input.blocks[n].tail.body = <<>>
       /\ \A i \in 1..(n - 1) : WellFormedBlock(input.blocks[i])

\* C6: when the last marker line is followed immediately by the end of input,
\* PreProcess completes normally and maps that stage to the empty string.
C6_MarkerLastGivesEmptyStage ==
    (PreProcessed /\ MarkerLast(ppInput)) =>
        /\ ppResult.status = "ok"
        /\ LET last == ppInput.blocks[Len(ppInput.blocks)]
           IN /\ Kind(last.name) \in DOMAIN ppResult.sources
              /\ ppResult.sources[Kind(last.name)] = <<>>

\* C7: constructing a shader from a file with more than two stage blocks with
\* recognized names hits the "at most two stages" assertion and never reaches
\* the native compile of a stage.
C7_ThreeBlocksAreFatal ==
    (AfterConstruct /\ trace.via = "file" /\ trace.markers > MaxStages) =>
        /\ trace.outcome = "assert_two_stages"
        /\ trace.created = <<>>

\* ---- vertex array
RECURSIVE Flatten(_)
Flatten(layouts) == IF layouts = <<>> THEN <<>> ELSE Head(layouts) \o Flatten(Tail(layouts))

\* C8: after any sequence of AddVertexBuffer calls there is exactly one
\* attribute binding per layout element, the k-th element ever attached is
\* bound at slot k, and the next-free-slot counter equals the number of
\* elements attached: each call starts where the previous one stopped.
C8_SequentialSlots ==
    LET all == Flatten(m_VertexBuffers)
    IN /\ Len(attribCalls) = Len(all)
       /\ \A k \in 1..Len(all) :
             /\ attribCalls[k].index = k - 1
             /\ attribCalls[k].element = all[k]
       /\ m_VertexBufferIndex = Len(all)
       /\ (vaTrace.op = "AddVertexBuffer" /\ vaTrace.outcome = "ok") =>
             m_VertexBufferIndex = vaTrace.indexBefore + Len(vaTrace.layout)
C8_Witness ==
    /\ Len(m_VertexBuffers) = 2
    /\ Len(m_VertexBuffers[1]) = 2
    /\ Len(m_VertexBuffers[2]) = 3
    /\ vaTrace.indexBefore = 2
    /\ m_VertexBufferIndex = 5
    /\ {attribCalls[k].index : k \in 3..5} = {2, 3, 4}

\* ---- uniforms
AfterUpload == trace.op = "Upload"

\* C9 as stated: every uniform call on a constructed shader resolves the name in the currently bound
\* program and pushes the value to that same program, and leaves the bound
\* program as it was.
C9_ResolvedInBoundProgram ==
    (AfterUpload /\ shaders[trace.shader].assigned) =>
        /\ trace.queried = trace.target
        /\ trace.target = trace.boundBefore
        /\ activeProgram = trace.boundBefore

\* C9 amended: every uniform call resolves the name in the shader's own
\* program (its m_RendererID), pushes the value to the program that is bound
\* at the time, whichever it is, and leaves the bound program as it was.
C9_ResolvedInOwnProgram ==
    AfterUpload =>
        /\ shaders[trace.shader].assigned =>
              trace.queried = shaders[trace.shader].m_RendererID
        /\ trace.found = (trace.queried \in linkedPrograms)
        /\ trace.target = trace.boundBefore
        /\ activeProgram = trace.boundBefore
C9_Witness ==
    /\ AfterUpload
    /\ shaders[trace.shader].assigned
    /\ trace.found
    /\ trace.target # 0
    /\ trace.target # trace.queried

\* C10: every stage handle Compile passes to a native detach or delete call
\* was created by this attempt and has not been deleted yet, and the
\* glShaderIDs slot it was read from had been written.
C10_OnlyOwnLiveHandles ==
    AfterConstruct =>
        \A i \in DOMAIN trace.calls :
            trace.calls[i].written /\ trace.calls[i].own /\ trace.calls[i].live
====
